---- MODULE Spec2Model ----
(***************************************************************************)
(* Model of test-routing.py: a script that prints a banner, issues one     *)
(* requests.get(url, timeout=5) and prints the status, the headers and the *)
(* body of the response, or "Error: <message>" when the call raises.       *)
(*                                                                         *)
(* The inputs of the program are what the network and the server do: the   *)
(* connection may be refused, name resolution may fail, bytes may arrive   *)
(* slowly or not at all, the response may be malformed, a redirect or a    *)
(* final response.  The platform under the script (standard output, the    *)
(* interpreter, signals) is taken to work: a print returns normally.       *)
(***************************************************************************)
EXTENDS Integers, Sequences, FiniteSets, TLC

(* ------------------------------ constants ------------------------------ *)

url == "http://localhost:8080/test/api/hello"

SepLen == 60

TimeoutSec == 5

(* ------------------------------- bounds -------------------------------- *)

\* Seconds of wall-clock time the model follows after the request is issued.
MaxElapsed == 6

\* Redirect responses the client follows before it raises TooManyRedirects.
MaxHops == 1

\* Header fields in one response.
MaxHeaders == 2

\* Characters in one response body.
MaxBody == 2

(* ------------------------------- inputs -------------------------------- *)

NoValue == "None"

Statuses == {200, 302, 404}

REDIRECT_STATI == {301, 302, 303, 307, 308}

\* Header fields as they arrive on the wire: <<name, value>>.
HeaderFields ==
  {<<"Content-Type", "v1">>, <<"content-type", "v2">>, <<"Location", "v1">>}

WireHeaders == UNION {[1..n -> HeaderFields] : n \in 0..MaxHeaders}

BodyChars == {"[", "]", "7"}

Bodies == UNION {[1..n -> BodyChars] : n \in 0..MaxBody}

ServerResponses == [status : Statuses, headers : WireHeaders, body : Bodies]

\* Exceptions requests.get raises; all are subclasses of Exception.
TransportErrors ==
  {"ConnectionRefused", "NameResolutionError", "ConnectTimeout", "ReadTimeout",
   "MalformedResponse", "TooManyRedirects"}

ExceptionSubclasses == TransportErrors \cup {"JSONDecodeError"}

\* str(e)
Message(e) ==
  CASE e = "ConnectionRefused" -> "Connection refused"
    [] e = "NameResolutionError" -> "Failed to resolve 'localhost'"
    [] e = "ConnectTimeout" -> "Connection to localhost timed out. (connect timeout=5)"
    [] e = "ReadTimeout" -> "Read timed out. (read timeout=5)"
    [] e = "MalformedResponse" -> "Connection aborted."
    [] e = "TooManyRedirects" -> "Exceeded 30 redirects."
    [] OTHER -> e

(* --------------------------- response headers -------------------------- *)

\* str.lower() on the header names of the model
lower(k) ==
  CASE k = "Content-Type" -> "content-type"
    [] k = "Location" -> "location"
    [] OTHER -> k

\* A dictionary that keeps only the value of the last arrival of a name.
HeaderDictAddLastWins(d, k, v) ==
  IF \E j \in 1..Len(d) : d[j].lkey = lower(k)
  THEN [j \in 1..Len(d) |->
          IF d[j].lkey = lower(k) THEN [d[j] EXCEPT !.vals = <<v>>] ELSE d[j]]
  ELSE Append(d, [lkey |-> lower(k), key |-> k, vals |-> <<v>>])

\* The client's header dictionary: one entry per case-insensitive name, in the
\* order of the first arrival of the name, keeping the first spelling and
\* collecting the values of later arrivals of the same name.
HeaderDictAdd(d, k, v) ==
  IF \E j \in 1..Len(d) : d[j].lkey = lower(k)
  THEN [j \in 1..Len(d) |->
          IF d[j].lkey = lower(k) THEN [d[j] EXCEPT !.vals = Append(@, v)]
                                  ELSE d[j]]
  ELSE Append(d, [lkey |-> lower(k), key |-> k, vals |-> <<v>>])

RECURSIVE HeaderDict(_)
HeaderDict(wire) ==
  IF wire = <<>> THEN <<>>
  ELSE HeaderDictAdd(HeaderDict(SubSeq(wire, 1, Len(wire) - 1)),
                     wire[Len(wire)][1], wire[Len(wire)][2])

\* ", ".join(vals), as the sequence of its pieces
RECURSIVE JoinValues(_)
JoinValues(vals) ==
  IF Len(vals) = 1 THEN <<vals[1]>>
  ELSE JoinValues(SubSeq(vals, 1, Len(vals) - 1)) \o <<", ", vals[Len(vals)]>>

\* r.headers.items(): <<key, value>> pairs, value already joined
HeaderItems(d) == [j \in 1..Len(d) |-> <<d[j].key, JoinValues(d[j].vals)>>]

\* r.headers.get(name): None when the name is absent
HeaderGet(d, name) ==
  IF \E j \in 1..Len(d) : d[j].lkey = lower(name)
  THEN JoinValues(d[CHOOSE j \in 1..Len(d) : d[j].lkey = lower(name)].vals)
  ELSE <<NoValue>>

\* The client follows a response that has a redirect status and a Location.
IsRedirect(resp) ==
  /\ resp.status \in REDIRECT_STATI
  /\ \E j \in 1..Len(resp.headers) : lower(resp.headers[j][1]) = "location"

\* What the server may answer: redirects, which the client follows, and final
\* responses, which requests.get returns.
RedirectResponses == {resp \in ServerResponses : IsRedirect(resp)}

FinalResponses == {resp \in ServerResponses : ~IsRedirect(resp)}

(* --------------------------------- JSON -------------------------------- *)

NoData == [t |-> "none", n |-> 0, elems |-> <<>>]

IsDigits(s) == Len(s) > 0 /\ \A j \in 1..Len(s) : s[j] = "7"

RECURSIVE IntOf(_)
IntOf(s) == IF s = <<>> THEN 0 ELSE 10 * IntOf(SubSeq(s, 1, Len(s) - 1)) + 7

\* json.loads on texts over BodyChars: a number, or an array of at most one
\* value (the alphabet has no comma).  ok = FALSE stands for JSONDecodeError.
RECURSIVE loads(_)
loads(s) ==
  IF IsDigits(s)
  THEN [ok |-> TRUE, val |-> [t |-> "int", n |-> IntOf(s), elems |-> <<>>]]
  ELSE IF Len(s) >= 2 /\ s[1] = "[" /\ s[Len(s)] = "]"
  THEN LET inner == SubSeq(s, 2, Len(s) - 1) IN
       IF inner = <<>>
       THEN [ok |-> TRUE, val |-> [t |-> "list", n |-> 0, elems |-> <<>>]]
       ELSE LET e == loads(inner) IN
            IF e.ok
            THEN [ok |-> TRUE, val |-> [t |-> "list", n |-> 0, elems |-> <<e.val>>]]
            ELSE [ok |-> FALSE, val |-> NoData]
  ELSE [ok |-> FALSE, val |-> NoData]

RECURSIVE Digits(_)
Digits(n) ==
  IF n < 10 THEN <<ToString(n)>> ELSE Digits(n \div 10) \o <<ToString(n % 10)>>

Spaces(n) == [j \in 1..n |-> " "]

\* json.dumps(val, indent=2) at nesting depth `level`
RECURSIVE dumps(_, _)
dumps(val, level) ==
  IF val.t = "int" THEN Digits(val.n)
  ELSE IF val.elems = <<>> THEN <<"[", "]">>
  ELSE <<"[", "\n">> \o Spaces(2 * (level + 1)) \o dumps(val.elems[1], level + 1)
       \o <<"\n">> \o Spaces(2 * level) \o <<"]">>

(* -------------------------------- state -------------------------------- *)

VARIABLES
  pc,        \* the statement the script is at
  out,       \* standard output: the sequence of lines printed so far
  r,         \* the Response object, NoResponse before requests.get returns
  exc,       \* e of `except Exception as e`, NoValue while nothing is caught
  data,      \* the value r.json() returned
  k,         \* position of the loop over r.headers.items()
  received,  \* the final response as the server sent it
  phase,     \* inside requests.get: "connecting" or "reading"; else "idle"
  idle,      \* seconds since the socket last made progress
  elapsed,   \* seconds since the request was issued
  getCalls,  \* calls of requests.get
  attempts,  \* GET requests the client has started
  history    \* redirect responses the client has followed

vars ==
  <<pc, out, r, exc, data, k, received, phase, idle, elapsed, getCalls,
    attempts, history>>

NoResponse == [status |-> 0, headers |-> <<>>, content |-> <<>>]

NoReceived == [status |-> 0, headers |-> <<>>, body |-> <<>>]

\* print(...) appends one line; a line is the sequence of its pieces
print(line) == out' = Append(out, line)

Dashes == [j \in 1..SepLen |-> "-"]

Init ==
  /\ pc = "l8"
  /\ out = <<>>
  /\ r = NoResponse
  /\ exc = NoValue
  /\ data = NoData
  /\ k = 1
  /\ received = NoReceived
  /\ phase = "idle"
  /\ idle = 0
  /\ elapsed = 0
  /\ getCalls = 0
  /\ attempts = 0
  /\ history = 0

(* ---------------------------- try / except ----------------------------- *)

\* except KeyError: a handler that lets a decoding error through
InnerCatchesKeyErrorOnly(e) == e = "KeyError"

\* line 22: a bare except catches whatever is raised
InnerCatches(e) == TRUE

\* except requests.ConnectionError: a handler that lets timeouts and
\* redirect errors through
OuterCatchesConnectionErrorOnly(e) ==
  e \in {"ConnectionRefused", "NameResolutionError", "MalformedResponse"}

\* line 24: except Exception
OuterCatches(e) == e \in ExceptionSubclasses

\* Where control goes when e is raised inside the try block `block`.
HandlerOf(block, e) ==
  IF block = "inner" /\ InnerCatches(e) THEN "l23"
  ELSE IF OuterCatches(e) THEN "l25"
  ELSE "raised"

\* A client that starts the request again when it fails.
RaiseFromGetWithRetry(e) ==
  IF attempts - history < 2
  THEN /\ attempts' = attempts + 1
       /\ phase' = "connecting"
       /\ idle' = 0
       /\ UNCHANGED <<pc, exc>>
  ELSE /\ pc' = HandlerOf("outer", e)
       /\ exc' = IF OuterCatches(e) THEN e ELSE exc
       /\ phase' = "idle"
       /\ idle' = 0
       /\ attempts' = attempts

\* e raised by requests.get at line 12; the client makes no further attempt
RaiseFromGet(e) ==
  /\ pc' = HandlerOf("outer", e)
  /\ exc' = IF OuterCatches(e) THEN e ELSE exc
  /\ phase' = "idle"
  /\ idle' = 0
  /\ attempts' = attempts

(* ------------------------------ the script ----------------------------- *)

\* line 8
PrintTesting ==
  /\ pc = "l8"
  /\ print(<<"Testing: ", url>>)
  /\ pc' = "l9"
  /\ UNCHANGED <<r, exc, data, k, received, phase, idle, elapsed, getCalls,
                 attempts, history>>

\* line 9
PrintSeparator ==
  /\ pc = "l9"
  /\ print(Dashes)
  /\ pc' = "l12"
  /\ UNCHANGED <<r, exc, data, k, received, phase, idle, elapsed, getCalls,
                 attempts, history>>

\* line 12: the call; the client starts its first GET
CallGet ==
  /\ pc = "l12"
  /\ pc' = "get"
  /\ getCalls' = getCalls + 1
  /\ attempts' = attempts + 1
  /\ phase' = "connecting"
  /\ idle' = 0
  /\ UNCHANGED <<out, r, exc, data, k, received, elapsed, history>>

\* A timer that fires one second late.
TimedOutLate(t) == t >= TimeoutSec + 1

\* timeout=5: the wait for the socket is given up after TimeoutSec seconds
\* without progress
TimedOut(t) == t >= TimeoutSec

\* one second passes while requests.get blocks
Tick ==
  /\ pc = "get"
  /\ ~TimedOut(idle)
  /\ elapsed < MaxElapsed
  /\ idle' = idle + 1
  /\ elapsed' = elapsed + 1
  /\ UNCHANGED <<pc, out, r, exc, data, k, received, phase, getCalls,
                 attempts, history>>

\* the connection is established and the GET is sent
ConnectEstablished ==
  /\ pc = "get" /\ phase = "connecting"
  /\ ~TimedOut(idle)
  /\ phase' = "reading"
  /\ idle' = 0
  /\ UNCHANGED <<pc, out, r, exc, data, k, received, elapsed, getCalls,
                 attempts, history>>

\* the connection is refused or the name does not resolve
ConnectFails ==
  /\ pc = "get" /\ phase = "connecting"
  /\ ~TimedOut(idle)
  /\ \E e \in {"ConnectionRefused", "NameResolutionError"} : RaiseFromGet(e)
  /\ UNCHANGED <<out, r, data, k, received, elapsed, getCalls, history>>

\* part of the response arrives: the socket made progress
ReceiveBytes ==
  /\ pc = "get" /\ phase = "reading"
  /\ ~TimedOut(idle)
  /\ idle > 0
  /\ idle' = 0
  /\ UNCHANGED <<pc, out, r, exc, data, k, received, phase, elapsed, getCalls,
                 attempts, history>>

\* no progress for TimeoutSec seconds
TimeoutExpires ==
  /\ pc = "get"
  /\ TimedOut(idle)
  /\ RaiseFromGet(IF phase = "connecting" THEN "ConnectTimeout" ELSE "ReadTimeout")
  /\ UNCHANGED <<out, r, data, k, received, elapsed, getCalls, history>>

\* what arrives is not a well-formed response
ReceiveMalformed ==
  /\ pc = "get" /\ phase = "reading"
  /\ ~TimedOut(idle)
  /\ RaiseFromGet("MalformedResponse")
  /\ UNCHANGED <<out, r, data, k, received, elapsed, getCalls, history>>

\* allow_redirects defaults to True: a redirect response is followed with a
\* new GET, until the redirect limit is exceeded
FollowRedirect ==
  IF history < MaxHops
  THEN /\ attempts' = attempts + 1
       /\ history' = history + 1
       /\ phase' = "connecting"
       /\ idle' = 0
       /\ UNCHANGED <<pc, exc>>
  ELSE /\ RaiseFromGet("TooManyRedirects")
       /\ UNCHANGED history

\* a redirect response arrives
ReceiveRedirect ==
  /\ pc = "get" /\ phase = "reading"
  /\ ~TimedOut(idle)
  /\ RedirectResponses # {}
  /\ FollowRedirect
  /\ UNCHANGED <<out, r, data, k, received, elapsed, getCalls>>

\* the Response object requests.get returns
Response(resp) ==
  [status |-> resp.status, headers |-> HeaderDict(resp.headers),
   content |-> resp.body]

\* A client that raises for a status of 400 and above (raise_for_status).
ReceiveResponseRaiseForStatus ==
  /\ pc = "get" /\ phase = "reading"
  /\ ~TimedOut(idle)
  /\ \E resp \in FinalResponses :
       /\ received' = resp
       /\ r' = Response(resp)
       /\ pc' = IF resp.status >= 400 THEN "l25" ELSE "l13"
       /\ exc' = IF resp.status >= 400 THEN "HTTPError" ELSE exc
  /\ phase' = "idle"
  /\ idle' = 0
  /\ UNCHANGED <<out, data, k, elapsed, getCalls, attempts, history>>

\* a final response arrives and requests.get returns it
ReceiveResponse ==
  /\ pc = "get" /\ phase = "reading"
  /\ ~TimedOut(idle)
  /\ \E resp \in FinalResponses :
       /\ received' = resp
       /\ r' = Response(resp)
  /\ pc' = "l13"
  /\ phase' = "idle"
  /\ idle' = 0
  /\ UNCHANGED <<out, exc, data, k, elapsed, getCalls, attempts, history>>

\* Lines 13 and 14 in the other order.
PrintContentTypeFirst ==
  /\ pc = "l13"
  /\ print(<<"Content-Type: ">> \o HeaderGet(r.headers, "content-type"))
  /\ pc' = "l14"
  /\ UNCHANGED <<r, exc, data, k, received, phase, idle, elapsed, getCalls,
                 attempts, history>>

\* A status line that also reports how long the request took.
PrintStatusWithElapsed ==
  /\ pc = "l13"
  /\ print(<<"Status Code: ">> \o Digits(r.status) \o <<" ">> \o Digits(elapsed))
  /\ pc' = "l14"
  /\ UNCHANGED <<r, exc, data, k, received, phase, idle, elapsed, getCalls,
                 attempts, history>>

\* line 13
PrintStatus ==
  /\ pc = "l13"
  /\ print(<<"Status Code: ">> \o Digits(r.status))
  /\ pc' = "l14"
  /\ UNCHANGED <<r, exc, data, k, received, phase, idle, elapsed, getCalls,
                 attempts, history>>

\* line 14
PrintContentType ==
  /\ pc = "l14"
  /\ print(<<"Content-Type: ">> \o HeaderGet(r.headers, "content-type"))
  /\ pc' = "l15"
  /\ UNCHANGED <<r, exc, data, k, received, phase, idle, elapsed, getCalls,
                 attempts, history>>

\* line 15: "\nResponse Headers:" is a blank line and the heading
PrintHeadersHeading ==
  /\ pc = "l15"
  /\ out' = out \o <<<<>>, <<"Response Headers:">>>>
  /\ k' = 1
  /\ pc' = "l16"
  /\ UNCHANGED <<r, exc, data, received, phase, idle, elapsed, getCalls,
                 attempts, history>>

\* lines 16-17: one turn of the loop over r.headers.items()
PrintHeader ==
  /\ pc = "l16"
  /\ k <= Len(HeaderItems(r.headers))
  /\ LET item == HeaderItems(r.headers)[k]
     IN print(<<"  ", item[1], ": ">> \o item[2])
  /\ k' = k + 1
  /\ UNCHANGED <<pc, r, exc, data, received, phase, idle, elapsed, getCalls,
                 attempts, history>>

\* line 18, reached when the loop is exhausted
PrintBodyHeading ==
  /\ pc = "l16"
  /\ k > Len(HeaderItems(r.headers))
  /\ out' = out \o <<<<>>, <<"Response Body:">>>>
  /\ pc' = "l20"
  /\ UNCHANGED <<r, exc, data, k, received, phase, idle, elapsed, getCalls,
                 attempts, history>>

\* line 20: r.json() returns the parsed body or raises inside the inner try
ParseJson ==
  /\ pc = "l20"
  /\ LET p == loads(r.content)
     IN IF p.ok
        THEN /\ data' = p.val
             /\ pc' = "l21"
             /\ exc' = exc
        ELSE /\ data' = data
             /\ pc' = HandlerOf("inner", "JSONDecodeError")
             /\ exc' = IF InnerCatches("JSONDecodeError") THEN exc
                       ELSE "JSONDecodeError"
  /\ UNCHANGED <<out, r, k, received, phase, idle, elapsed, getCalls,
                 attempts, history>>

\* line 21
PrintJson ==
  /\ pc = "l21"
  /\ print(dumps(data, 0))
  /\ pc' = "done"
  /\ UNCHANGED <<r, exc, data, k, received, phase, idle, elapsed, getCalls,
                 attempts, history>>

\* print(repr(r.text)): the body in quotes
PrintTextRepr ==
  /\ pc = "l23"
  /\ print(<<"'">> \o r.content \o <<"'">>)
  /\ pc' = "done"
  /\ UNCHANGED <<r, exc, data, k, received, phase, idle, elapsed, getCalls,
                 attempts, history>>

\* line 23: r.text is the body as received
PrintText ==
  /\ pc = "l23"
  /\ print(r.content)
  /\ pc' = "done"
  /\ UNCHANGED <<r, exc, data, k, received, phase, idle, elapsed, getCalls,
                 attempts, history>>

\* The report placed after the try statement instead of inside it.
PrintErrorThenReport ==
  /\ pc = "l25"
  /\ print(<<"Error: ", Message(exc)>>)
  /\ pc' = "l13"
  /\ UNCHANGED <<r, exc, data, k, received, phase, idle, elapsed, getCalls,
                 attempts, history>>

\* line 25
PrintError ==
  /\ pc = "l25"
  /\ print(<<"Error: ", Message(exc)>>)
  /\ pc' = "done"
  /\ UNCHANGED <<r, exc, data, k, received, phase, idle, elapsed, getCalls,
                 attempts, history>>

Next ==
  \/ PrintTesting
  \/ PrintSeparator
  \/ CallGet
  \/ Tick
  \/ ConnectEstablished
  \/ ConnectFails
  \/ ReceiveBytes
  \/ TimeoutExpires
  \/ ReceiveMalformed
  \/ ReceiveRedirect
  \/ ReceiveResponse
  \/ PrintStatus
  \/ PrintContentType
  \/ PrintHeadersHeading
  \/ PrintHeader
  \/ PrintBodyHeading
  \/ ParseJson
  \/ PrintJson
  \/ PrintText
  \/ PrintError

Spec == Init /\ [][Next]_vars

(* ------------------------- reading the output -------------------------- *)

First(line) == IF line = <<>> THEN "" ELSE line[1]

\* What a line of the output is, by the way it begins.
Kind(line) ==
  CASE First(line) = "Testing: " -> "testing"
    [] First(line) = "-" -> "sep"
    [] First(line) = "Status Code: " -> "status"
    [] First(line) = "Content-Type: " -> "ctype"
    [] First(line) = "Response Headers:" -> "hheading"
    [] First(line) = "  " -> "header"
    [] First(line) = "Response Body:" -> "bheading"
    [] First(line) = "Error: " -> "error"
    [] OTHER -> "text"

Kinds(o) == [j \in 1..Len(o) |-> Kind(o[j])]

Count(o, kind) == Cardinality({j \in 1..Len(o) : Kind(o[j]) = kind})

IsPrefix(a, b) == Len(a) <= Len(b) /\ a = SubSeq(b, 1, Len(a))

Banner == <<<<"Testing: ", url>>, Dashes>>

ErrorLine(e) == <<"Error: ", Message(e)>>

\* The kinds of the lines of a report with n header lines.
ExpectedKinds(n) ==
  <<"testing", "sep", "status", "ctype", "text", "hheading">>
  \o [j \in 1..n |-> "header"] \o <<"text", "bheading", "text">>

HeaderLines(o) == SelectSeq(o, LAMBDA line : Kind(line) = "header")

Succeeded == r # NoResponse

Timeouts == {"ConnectTimeout", "ReadTimeout"}

(* ------------------------------- claims -------------------------------- *)

\* C1: every exception raised by the request is caught: the run never ends by
\* raising, control goes to the handler, and the run ends after printing
\* "Error: <message>" as its last line.
C1_ExceptionCaught ==
  /\ pc # "raised"
  /\ exc # NoValue =>
       /\ exc \in TransportErrors
       /\ pc \in {"l25", "done"}
       /\ pc = "done" => out[Len(out)] = ErrorLine(exc)

C1_Witness ==
  /\ pc = "done"
  /\ exc = "MalformedResponse"
  /\ out[Len(out)] = <<"Error: ", "Connection aborted.">>

\* C2: when the connection is refused the output holds the banner and, once
\* the run has ended, exactly one Error line; no status, content-type, header
\* or body line is printed.
C2_RefusedPrintsOnlyError ==
  exc = "ConnectionRefused" =>
    /\ Count(out, "error") = (IF pc = "done" THEN 1 ELSE 0)
    /\ Len(out) = 2 + Count(out, "error")
    /\ IsPrefix(Banner, out)

C2_Witness ==
  /\ pc = "done"
  /\ exc = "ConnectionRefused"
  /\ history = 0
  /\ Len(out) = 3
  /\ Kind(out[3]) = "error"

\* C3: a response is reported through the success path whatever its status:
\* its status line, header lines and body are printed and no Error line; an
\* Error line is printed only when the request raised and gave no response.
C3_StatusIsNotAnError ==
  /\ Count(out, "error") > 0 =>
       (exc \in TransportErrors /\ ~Succeeded /\ received = NoReceived)
  /\ (Succeeded /\ pc = "done") =>
       /\ Count(out, "error") = 0
       /\ out[3] = <<"Status Code: ">> \o Digits(received.status)
       /\ Count(out, "header") = Len(r.headers)
       /\ Len(out) = 9 + Len(r.headers)

C3_Witness ==
  /\ pc = "done"
  /\ received.status = 404
  /\ out[3] = <<"Status Code: ", "4", "0", "4">>
  /\ Count(out, "error") = 0
  /\ Len(out) >= 9

\* C4: when the body is not JSON the run shows no error (no Error line, the
\* handler of line 25 is not entered, no exception escapes) and ends with the
\* body printed as it was received.
C4_UnparsableBodyPrintedRaw ==
  (Succeeded /\ ~loads(received.body).ok) =>
    /\ pc \notin {"l21", "l25", "raised"}
    /\ exc = NoValue
    /\ Count(out, "error") = 0
    /\ pc = "done" => out[Len(out)] = received.body

C4_Witness ==
  /\ pc = "done"
  /\ received.body = <<"[", "7">>
  /\ out[Len(out)] = <<"[", "7">>
  /\ Count(out, "error") = 0

\* C5 as stated: the header lines of a finished report are the header fields
\* that arrived, one line each, in arrival order.
C5_Original ==
  (Succeeded /\ pc = "done") =>
    HeaderLines(out) =
      [j \in 1..Len(received.headers) |->
         <<"  ", received.headers[j][1], ": ", received.headers[j][2]>>]

\* Positions in the arriving fields at which a name arrives for the first time.
FirstArrivals(w) ==
  SelectSeq([j \in 1..Len(w) |-> j],
            LAMBDA j : \A h \in 1..(j - 1) : lower(w[h][1]) # lower(w[j][1]))

\* Values of the fields that carry the name of the field at position j.
RECURSIVE ValuesOf(_, _, _)
ValuesOf(w, j, upto) ==
  IF upto = 0 THEN <<>>
  ELSE ValuesOf(w, j, upto - 1)
       \o (IF lower(w[upto][1]) = lower(w[j][1]) THEN <<w[upto][2]>> ELSE <<>>)

RECURSIVE CommaSeparated(_)
CommaSeparated(vals) ==
  IF vals = <<>> THEN <<>>
  ELSE IF Len(vals) = 1 THEN vals
  ELSE <<vals[1], ", ">> \o CommaSeparated(Tail(vals))

MergedHeaderLines(w) ==
  [n \in 1..Len(FirstArrivals(w)) |->
     LET j == FirstArrivals(w)[n]
     IN <<"  ", w[j][1], ": ">> \o CommaSeparated(ValuesOf(w, j, Len(w)))]

\* C5 amended: once the header loop has ended, the header lines are one line
\* per distinct case-insensitive name, in the order the names first arrived,
\* each with the spelling of the first arrival and the values of all arrivals
\* of the name joined by ", " in arrival order.
C5_MergedInFirstArrivalOrder ==
  (Succeeded /\ pc \in {"l20", "l21", "l23", "done"}) =>
    HeaderLines(out) = MergedHeaderLines(received.headers)

C5_Witness ==
  /\ pc = "done"
  /\ received.headers = <<<<"Content-Type", "v1">>, <<"content-type", "v2">>>>
  /\ HeaderLines(out) = <<<<"  ", "Content-Type", ": ", "v1", ", ", "v2">>>>

\* C6 as stated: more than TimeoutSec seconds after the request was issued
\* the probe is no longer waiting and the run is on the failure path.
C6_Original ==
  elapsed > TimeoutSec =>
    (pc \in {"l25", "done"} /\ exc \in Timeouts /\ ~Succeeded)

\* C6 amended: requests.get never waits more than TimeoutSec seconds without
\* progress on the connection, and a run whose wait expired is on the failure
\* path: banner, then the Error line, no status, header or body line.
C6_NoProgressTimeout ==
  /\ pc = "get" => idle <= TimeoutSec
  /\ (pc = "get" /\ idle = TimeoutSec) => ENABLED TimeoutExpires
  /\ exc \in Timeouts =>
       /\ ~Succeeded
       /\ pc \in {"l25", "done"}
       /\ out = (IF pc = "done" THEN Banner \o <<ErrorLine(exc)>> ELSE Banner)

C6_Witness ==
  /\ pc = "done"
  /\ exc = "ReadTimeout"
  /\ elapsed > TimeoutSec
  /\ out = Banner \o <<<<"Error: ", "Read timed out. (read timeout=5)">>>>

\* C7: the banner is printed before the request is issued, and the lines of a
\* report come in the fixed order status, content-type, blank, "Response
\* Headers:", the header lines, blank, "Response Body:", body, each once.
C7_ReportOrder ==
  /\ attempts = 0 => IsPrefix(out, Banner)
  /\ attempts > 0 => IsPrefix(Banner, out)
  /\ Succeeded => IsPrefix(Kinds(out), ExpectedKinds(Len(r.headers)))
  /\ (Succeeded /\ pc = "done") => Kinds(out) = ExpectedKinds(Len(r.headers))

C7_Witness ==
  /\ pc = "done"
  /\ Len(r.headers) = 2
  /\ Kinds(out) =
       <<"testing", "sep", "status", "ctype", "text", "hheading", "header",
         "header", "text", "bheading", "text">>

\* C8 as stated: a run starts exactly one GET request.
C8_Original ==
  /\ attempts <= 1
  /\ pc = "done" => attempts = 1

\* C8 amended: the script calls requests.get once; the client starts one GET
\* for the call and one more for each redirect response it follows, and none
\* after a failure or after a final response.
C8_OneCallNoRetry ==
  /\ getCalls <= 1
  /\ attempts = getCalls + history
  /\ (exc # NoValue \/ Succeeded) => (getCalls = 1 /\ pc # "get" /\ phase = "idle")

C8_Witness ==
  /\ pc = "done"
  /\ exc = "ConnectionRefused"
  /\ getCalls = 1
  /\ history = 1
  /\ attempts = 2

\* The report as a function of the response the server sent.
BodyText(body) == IF loads(body).ok THEN dumps(loads(body).val, 0) ELSE body

ReportOf(resp) ==
  LET d == HeaderDict(resp.headers)
      items == HeaderItems(d)
  IN Banner
     \o <<<<"Status Code: ">> \o Digits(resp.status),
          <<"Content-Type: ">> \o HeaderGet(d, "content-type"),
          <<>>,
          <<"Response Headers:">>>>
     \o [j \in 1..Len(items) |-> <<"  ", items[j][1], ": ">> \o items[j][2]]
     \o <<<<>>, <<"Response Body:">>, BodyText(resp.body)>>

\* C9: the output of a finished run is a function of what the run received:
\* of the status, headers and body of the response, or of the message of the
\* error; how long the request took and how many redirects were followed do
\* not show in it.
C9_OutputIsFunctionOfResponse ==
  pc = "done" =>
    out = (IF exc = NoValue THEN ReportOf(received)
           ELSE Banner \o <<ErrorLine(exc)>>)

C9_Witness ==
  /\ pc = "done"
  /\ elapsed > TimeoutSec
  /\ history = 1
  /\ received.status = 200
  /\ received.body = <<"[", "]">>
  /\ out = ReportOf(received)

CompleteReport(o) == Kinds(o) = ExpectedKinds(Count(o, "header"))

ErrorOnly(o) == Len(o) = 3 /\ IsPrefix(Banner, o) /\ Kind(o[3]) = "error"

====
